---- MODULE Spec2Model ----
(***************************************************************************)
(* Model of src/lib/core/bot/components.ts: setupComponents() scans        *)
(* ./src/components (fetchComponents), builds the component registry and   *)
(* returns the dispatcher runComponent(interaction).                        *)
(*                                                                         *)
(* Strings that the code splits on "." or on path separators are modelled  *)
(* as what the split yields: a path is a sequence of segments, a segment   *)
(* (directory or file name) is the sequence of its dot-separated parts.    *)
(* A dot-free string s is the segment <<s>>.                               *)
(***************************************************************************)
EXTENDS Integers, Sequences, FiniteSets, TLC

VARIABLES
    rootState,      \* what Deno.readDirSync("./src/components") meets
    fsEntries,      \* the regular files under the root, in walk order
    subfolders,     \* the category subfolders that readDirSync can read
    pc,             \* position of setupComponents()
    files,          \* fetchComponents: result of Array.fromAsync(walk(...))
    idx,            \* fetchComponents: position of `for (const file of files)`
    imported,       \* indices of `files` whose module import() was started
    componentData,  \* fetchComponents: the array being built
    presentCategories, \* fetchComponents: advisory probe of the subfolders
    components,     \* setupComponents: the array captured by runComponent
    generatedStr,   \* setupComponents: rows of the startup listing
    log,            \* console.warn lines of the startup phase
    inv             \* the runComponent invocations, by arrival order

vars == <<rootState, fsEntries, subfolders, pc, files, idx, imported, componentData,
          presentCategories, components, generatedStr, log, inv>>

startupVars == <<rootState, fsEntries, subfolders, pc, files, idx, imported, componentData,
                 presentCategories, components, generatedStr, log>>

----------------------------------------------------------------------------
(* Bounds *)

MaxFiles == 2

\* files of the runs that look at the listing only
MaxListed == 3

MaxInv == 2

----------------------------------------------------------------------------
(* discord-api-types/v10 ComponentType, and the absent component_type of a *)
(* modal submission                                                        *)

ActionRow == 1
Button == 2
StringSelect == 3
TextInput == 4
UserSelect == 5
RoleSelect == 6
MentionableSelect == 7
ChannelSelect == 8
Absent == 0

ComponentKinds ==
    {Absent, ActionRow, Button, StringSelect, TextInput, UserSelect,
     RoleSelect, MentionableSelect, ChannelSelect}

\* one kind of each category, for the runs with concurrent invocations
RunKinds == {Button, StringSelect, Absent}

CustomIds == {"a", "b"}

----------------------------------------------------------------------------
(* The file system under ./src/components *)

RootStates == {"ok", "missing", "denied"}

\* what import() of a file does: fail, or yield a module with or without a
\* default export
Modules == {"loadfail", "nodefault", "fn"}

FsEntry(D, N, M) == [dir : D, name : N, module : M]

SamePath(e, f) == e.dir = f.dir /\ e.name = f.name

\* sequences of at most max entries with pairwise distinct paths
FileSystemsUpTo(D, N, M, max) ==
    UNION {{s \in [1..n -> FsEntry(D, N, M)] :
               \A i, j \in 1..n : SamePath(s[i], s[j]) => i = j}
           : n \in 0..max}

FileSystems(D, N, M) == FileSystemsUpTo(D, N, M, MaxFiles)

ScanDirs ==
    {<<>>, <<"buttons">>, <<"buttons", "sub">>, <<"modals">>, <<"selects">>,
     <<"misc">>}

ScanNames == {<<"a", "ts">>, <<"a", "b", "ts">>, <<"b", "ts">>, <<"a", "md">>}

RunDirs == {<<"buttons">>, <<"modals">>, <<"selects">>}

LiveDirs == {<<"buttons">>, <<"selects">>}

ProbeDirs == {<<>>, <<"buttons">>, <<"buttons", "sub">>, <<"selects">>}

RunNames == {<<"a", "ts">>}

OneNames == {<<"a", "ts">>, <<"b", "ts">>}

----------------------------------------------------------------------------
(* fetchComponents *)

validComponentCategories == <<"buttons", "modals", "selects">>

\* Includes that takes any segment for a member
IncludesAny(arr, seg) == \E i \in DOMAIN arr : Len(seg) >= 1

\* Array.prototype.includes on an array of dot-free strings
Includes(arr, seg) == \E i \in DOMAIN arr : seg = <<arr[i]>>

\* walk(..., {exts: [".ts"], includeDirs: false}): the file name ends in ".ts"
HasExt(e) == Len(e.name) >= 2 /\ e.name[Len(e.name)] = "ts"

Walk(entries) == SelectSeq(entries, HasExt)

\* file.path: the root "src/components", the directories, the file name
Path(f) ==
    <<<<"src">>, <<"components">>>>
        \o [i \in 1..Len(f.dir) |-> <<f.dir[i]>>]
        \o <<f.name>>

\* file.path.split(/[\\\/]/)[2]
CategoryOf(f) == Path(f)[3]

\* file.name.split(".")[0]
NameOf(f) == f.name[1]

\* Find with the category left out of the comparison
FindByName(arr, name, category) ==
    LET hits == {i \in DOMAIN arr : arr[i].name = name}
    IN  IF hits = {} THEN 0
        ELSE CHOOSE i \in hits : \A j \in hits : i <= j

\* componentData.find(c => c.name === name && c.category === category)
Find(arr, name, category) ==
    LET hits == {i \in DOMAIN arr :
                    arr[i].name = name /\ arr[i].category = category}
    IN  IF hits = {} THEN 0
        ELSE CHOOSE i \in hits : \A j \in hits : i <= j

\* the Component pushed for files[i]; `default` is the module's default
\* export, identified by the file it came from
ComponentOf(i) ==
    [name |-> NameOf(files[i]),
     category |-> CategoryOf(files[i])[1],
     default |-> IF files[i].module = "fn" THEN i ELSE 0]

\* lines 116-125: probe of the three subfolders; nothing reads the result
ProbeCategories ==
    SelectSeq(validComponentCategories, LAMBDA c : c \in subfolders)

\* the subfolders that hold the given files
SubfoldersOf(entries) ==
    {entries[i].dir[1] : i \in {j \in DOMAIN entries : entries[j].dir # <<>>}}
        \cap {validComponentCategories[n] : n \in DOMAIN validComponentCategories}

NoInv ==
    [pc |-> "idle", kind |-> Absent, customId |-> "", category |-> "",
     component |-> 0, calls |-> 0, behaviour |-> "none", result |-> "none",
     signal |-> "none", notFound |-> 0, errors |-> 0, outcome |-> "none"]

\* the state before setupComponents() is called, but for the subfolders
InitFiles(FS) ==
    /\ rootState \in RootStates
    /\ fsEntries \in (IF rootState = "ok" THEN FS ELSE {<<>>})
    /\ pc = "fetch"
    /\ files = <<>>
    /\ idx = 1
    /\ imported = <<>>
    /\ componentData = <<>>
    /\ presentCategories = <<>>
    /\ components = <<>>
    /\ generatedStr = <<[conn |-> "header", name |-> "Component", category |-> ""]>>
    /\ log = <<>>
    /\ inv = [i \in 1..MaxInv |-> NoInv]

\* the readable subfolders are those that hold the files
InitWith(FS) ==
    /\ InitFiles(FS)
    /\ subfolders = SubfoldersOf(fsEntries)

\* FetchNoRoot with the error of readDirSync left uncaught
FetchNoRootThrows ==
    /\ pc = "fetch"
    /\ rootState # "ok"
    /\ pc' = "failed"
    /\ UNCHANGED <<rootState, fsEntries, subfolders, files, idx, imported, componentData,
                   presentCategories, components, generatedStr, log, inv>>

\* FetchNoRoot with the warning given for every error
FetchNoRootWarns ==
    /\ pc = "fetch"
    /\ rootState # "ok"
    /\ log' = Append(log, [warn |-> "rootNotFound"])
    /\ pc' = "fetched"
    /\ UNCHANGED <<rootState, fsEntries, subfolders, files, idx, imported, componentData,
                   presentCategories, components, generatedStr, inv>>

\* lines 107-114: the root cannot be read; [] is returned, with a warning
\* when the error is NotFound, and setupComponents goes on with no component
FetchNoRoot ==
    /\ pc = "fetch"
    /\ rootState # "ok"
    /\ log' = IF rootState = "missing"
                THEN Append(log, [warn |-> "rootNotFound"])
                ELSE log
    /\ pc' = "fetched"
    /\ UNCHANGED <<rootState, fsEntries, subfolders, files, idx, imported, componentData,
                   presentCategories, components, generatedStr, inv>>

\* lines 107-133: the root is read, the subfolders probed, the tree walked
FetchWalk ==
    /\ pc = "fetch"
    /\ rootState = "ok"
    /\ presentCategories' = ProbeCategories
    /\ files' = Walk(fsEntries)
    /\ idx' = 1
    /\ componentData' = <<>>
    /\ pc' = "loop"
    /\ UNCHANGED <<rootState, fsEntries, subfolders, imported, components, generatedStr,
                   log, inv>>

\* ImportFailed with the failure caught and the file skipped
ImportFailedSkip(i) ==
    /\ pc' = "loop"
    /\ idx' = i + 1
    /\ log' = Append(log, [warn |-> "loadFailed", name |-> NameOf(files[i])])
    /\ UNCHANGED componentData

\* lines 136-143 and 98-100: import() rejects, fetchComponents rejects,
\* setupComponents rethrows
ImportFailed(i) ==
    /\ pc' = "failed"
    /\ UNCHANGED <<idx, componentData, log>>

\* lines 147-154: the category is not a valid one; warn and continue
SkipUnknown(i) ==
    /\ log' = Append(log, [warn |-> "noCategory", name |-> NameOf(files[i])])
    /\ UNCHANGED componentData

\* SkipDuplicate with the later component put in place of the earlier one
SkipDuplicateReplace(i) ==
    /\ log' = Append(log, [warn |-> "duplicate", name |-> NameOf(files[i]),
                           category |-> CategoryOf(files[i])[1]])
    /\ componentData' =
          [componentData EXCEPT
              ![Find(componentData, NameOf(files[i]), CategoryOf(files[i])[1])]
                  = ComponentOf(i)]

\* lines 162-174: the (name, category) is already there; warn and continue
SkipDuplicate(i) ==
    /\ log' = Append(log, [warn |-> "duplicate", name |-> NameOf(files[i]),
                           category |-> CategoryOf(files[i])[1]])
    /\ UNCHANGED componentData

\* line 176
Push(i) ==
    /\ componentData' = Append(componentData, ComponentOf(i))
    /\ UNCHANGED log

\* LoopBody with the category checked before the import, so that a file
\* outside the categories is never imported
LoopBodyCheckFirst(i) ==
    IF ~Includes(validComponentCategories, CategoryOf(files[i]))
    THEN /\ pc' = "loop"
         /\ idx' = i + 1
         /\ SkipUnknown(i)
         /\ UNCHANGED imported
    ELSE /\ imported' = Append(imported, i)
         /\ IF files[i].module = "loadfail"
            THEN ImportFailed(i)
            ELSE /\ pc' = "loop"
                 /\ idx' = i + 1
                 /\ IF Find(componentData, NameOf(files[i]),
                            CategoryOf(files[i])[1]) # 0
                    THEN SkipDuplicate(i)
                    ELSE Push(i)

\* LoopBody with only the categories whose subfolder was probed taken as
\* valid
LoopBodyPresentOnly(i) ==
    /\ imported' = Append(imported, i)
    /\ IF files[i].module = "loadfail"
       THEN ImportFailed(i)
       ELSE /\ pc' = "loop"
            /\ idx' = i + 1
            /\ IF ~Includes(presentCategories, CategoryOf(files[i]))
               THEN SkipUnknown(i)
               ELSE IF Find(componentData, NameOf(files[i]),
                            CategoryOf(files[i])[1]) # 0
               THEN SkipDuplicate(i)
               ELSE Push(i)

\* lines 135-177: one iteration of the loop, import() included
LoopBody(i) ==
    /\ imported' = Append(imported, i)
    /\ IF files[i].module = "loadfail"
       THEN ImportFailed(i)
       ELSE /\ pc' = "loop"
            /\ idx' = i + 1
            /\ IF ~Includes(validComponentCategories, CategoryOf(files[i]))
               THEN SkipUnknown(i)
               ELSE IF Find(componentData, NameOf(files[i]),
                            CategoryOf(files[i])[1]) # 0
               THEN SkipDuplicate(i)
               ELSE Push(i)

ScanFile ==
    /\ pc = "loop"
    /\ idx <= Len(files)
    /\ LoopBody(idx)
    /\ UNCHANGED <<rootState, fsEntries, subfolders, files, presentCategories, components,
                   generatedStr, inv>>

\* line 179: the loop is over, componentData is returned
FetchReturn ==
    /\ pc = "loop"
    /\ idx > Len(files)
    /\ pc' = "fetched"
    /\ UNCHANGED <<rootState, fsEntries, subfolders, files, idx, imported, componentData,
                   presentCategories, components, generatedStr, log, inv>>

----------------------------------------------------------------------------
(* setupComponents *)

\* Row without the case of a single component
RowNoOnly(name, category, totalComponents, generatedN) ==
    [conn |-> IF generatedN = 1 THEN "first"
              ELSE IF totalComponents = generatedN THEN "last"
              ELSE "middle",
     name |-> name,
     category |-> category]

\* lines 26-42: the row addComponent pushes as the generatedN-th
Row(name, category, totalComponents, generatedN) ==
    [conn |-> IF totalComponents = 1 THEN "only"
              ELSE IF generatedN = 1 THEN "first"
              ELSE IF totalComponents = generatedN THEN "last"
              ELSE "middle",
     name |-> name,
     category |-> category]

\* lines 47-49: components.forEach(addComponent)
Listing(cs) ==
    [n \in 1..Len(cs) |-> Row(cs[n].name, cs[n].category, Len(cs), n)]

\* lines 45-55: the listing is built and printed, runComponent is returned
ReturnDispatcher ==
    /\ pc = "fetched"
    /\ components' = componentData
    /\ generatedStr' = generatedStr \o Listing(componentData)
    /\ pc' = "ready"
    /\ UNCHANGED <<rootState, fsEntries, subfolders, files, idx, imported, componentData,
                   presentCategories, log, inv>>

----------------------------------------------------------------------------
(* runComponent *)

\* getCategory with the case of MentionableSelect missing
getCategoryFourSelects(component_type) ==
    CASE component_type = Button -> "buttons"
      [] component_type = ChannelSelect -> "selects"
      [] component_type = RoleSelect -> "selects"
      [] component_type = UserSelect -> "selects"
      [] component_type = StringSelect -> "selects"
      [] OTHER -> "modals"

\* lines 60-75: the switch on interaction.data.component_type
getCategory(component_type) ==
    CASE component_type = Button -> "buttons"
      [] component_type = ChannelSelect -> "selects"
      [] component_type = RoleSelect -> "selects"
      [] component_type = UserSelect -> "selects"
      [] component_type = StringSelect -> "selects"
      [] component_type = MentionableSelect -> "selects"
      [] OTHER -> "modals"

\* what a call of component.default(interaction) can do: return a plain
\* value, throw, or return a promise; calling an undefined default export
\* throws a TypeError
Behaviours(component) ==
    IF component.default = 0 THEN {"throw"} ELSE {"value", "throw", "promise"}

\* OnNotFound with an error thrown instead of the return
OnNotFoundThrow(arrived) ==
    [arrived EXCEPT !.notFound = @ + 1, !.pc = "done",
                    !.outcome = "notfound", !.signal = "rejected"]

\* lines 81-86: no component found; warn and return
OnNotFound(arrived) ==
    [arrived EXCEPT !.notFound = @ + 1, !.pc = "done",
                    !.outcome = "notfound", !.signal = "resolved"]

\* OnThrow without the try block: the throw leaves runComponent
OnThrowUncaught(arrived) ==
    [arrived EXCEPT !.calls = @ + 1, !.behaviour = "throw",
                    !.result = "threw", !.pc = "done", !.signal = "rejected"]

\* lines 90-94: line 91 throws inside the try block; the catch block awaits
\* componentLoader.error()
OnThrow(arrived) ==
    [arrived EXCEPT !.calls = @ + 1, !.behaviour = "throw",
                    !.result = "threw", !.pc = "loaderError"]

\* OnReturn without the await: runComponent returns with the result pending
OnReturnNoAwait(arrived, behaviour) ==
    [arrived EXCEPT !.calls = @ + 1, !.behaviour = behaviour,
                    !.result = IF behaviour = "value" THEN "fulfilled"
                               ELSE "pending",
                    !.pc = "done", !.outcome = "success",
                    !.signal = "resolved"]

\* line 91 with component.default undefined (the module has no default
\* export): the call itself throws a TypeError, no callback runs
OnNotCallable(arrived) ==
    [arrived EXCEPT !.behaviour = "throw", !.result = "threw",
                    !.pc = "loaderError"]

\* line 91: the callback returned; await Promise.resolve(result)
OnReturn(arrived, behaviour) ==
    [arrived EXCEPT !.calls = @ + 1, !.behaviour = behaviour,
                    !.result = IF behaviour = "value" THEN "fulfilled"
                               ELSE "pending",
                    !.pc = "awaitCallback"]

\* lines 58-91: the call of runComponent runs up to its first await
Start(i, component_type, custom_id, behaviour) ==
    LET category == getCategory(component_type)
        c == Find(components, custom_id, category)
        arrived == [inv[i] EXCEPT !.kind = component_type,
                                  !.customId = custom_id,
                                  !.category = category,
                                  !.component = c,
                                  !.signal = "pending"]
    IN  IF c = 0 THEN OnNotFound(arrived)
        ELSE IF components[c].default = 0 THEN OnNotCallable(arrived)
        ELSE IF behaviour = "throw" THEN OnThrow(arrived)
        ELSE OnReturn(arrived, behaviour)

\* Dispatch with runComponent at hand while fetchComponents still runs
DispatchEarly(i, kinds) ==
    /\ pc \in {"loop", "ready"}
    /\ inv[i].pc = "idle"
    /\ i > 1 => inv[i - 1].pc # "idle"
    /\ \E component_type \in kinds, custom_id \in CustomIds :
         LET c == Find(components, custom_id, getCategory(component_type))
         IN  \E behaviour \in (IF c = 0 THEN {"none"}
                               ELSE Behaviours(components[c])) :
                inv' = [inv EXCEPT
                           ![i] = Start(i, component_type, custom_id, behaviour)]
    /\ UNCHANGED startupVars

Dispatch(i, kinds) ==
    /\ pc = "ready"
    /\ inv[i].pc = "idle"
    /\ i > 1 => inv[i - 1].pc # "idle"
    /\ \E component_type \in kinds, custom_id \in CustomIds :
         LET c == Find(components, custom_id, getCategory(component_type))
         IN  \E behaviour \in (IF c = 0 THEN {"none"}
                               ELSE Behaviours(components[c])) :
                inv' = [inv EXCEPT
                           ![i] = Start(i, component_type, custom_id, behaviour)]
    /\ UNCHANGED startupVars

\* the promise the callback returned settles
Settle(i) ==
    /\ inv[i].pc = "awaitCallback"
    /\ inv[i].result = "pending"
    /\ \E r \in {"fulfilled", "rejected"} :
          inv' = [inv EXCEPT ![i].result = r]
    /\ UNCHANGED startupVars

\* Resume with the invocations served one after the other, in arrival order
ResumeInOrder(i) ==
    /\ inv[i].pc = "awaitCallback"
    /\ inv[i].result \in {"fulfilled", "rejected"}
    /\ \A j \in 1..(i - 1) : inv[j].pc = "done"
    /\ inv' = [inv EXCEPT ![i].pc = IF inv[i].result = "fulfilled"
                                    THEN "loaderResolve" ELSE "loaderError"]
    /\ UNCHANGED startupVars

\* line 91 resumes: on to line 92 (await componentLoader.resolve()) or to
\* the catch block, line 94 (await componentLoader.error())
Resume(i) ==
    /\ inv[i].pc = "awaitCallback"
    /\ inv[i].result \in {"fulfilled", "rejected"}
    /\ inv' = [inv EXCEPT ![i].pc = IF inv[i].result = "fulfilled"
                                    THEN "loaderResolve" ELSE "loaderError"]
    /\ UNCHANGED startupVars

\* line 92 resumes, runComponent returns
Succeed(i) ==
    /\ inv[i].pc = "loaderResolve"
    /\ inv' = [inv EXCEPT ![i].pc = "done", ![i].outcome = "success",
                          ![i].signal = "resolved"]
    /\ UNCHANGED startupVars

\* Catch with the component that failed taken out of the registry
CatchUnregister(i) ==
    /\ inv[i].pc = "loaderError"
    /\ inv' = [inv EXCEPT ![i].pc = "done", ![i].outcome = "failure",
                          ![i].errors = @ + 1, ![i].signal = "resolved"]
    /\ components' = SelectSeq(components,
                               LAMBDA c : c # components[inv[i].component])
    /\ UNCHANGED <<rootState, fsEntries, subfolders, pc, files, idx, imported,
                   componentData, presentCategories, generatedStr, log>>

\* Catch with the error thrown again after it is reported
CatchRethrow(i) ==
    /\ inv[i].pc = "loaderError"
    /\ inv' = [inv EXCEPT ![i].pc = "done", ![i].outcome = "failure",
                          ![i].errors = @ + 1, ![i].signal = "rejected"]
    /\ UNCHANGED startupVars

\* line 94 resumes, line 95 reports the error, runComponent returns
Catch(i) ==
    /\ inv[i].pc = "loaderError"
    /\ inv' = [inv EXCEPT ![i].pc = "done", ![i].outcome = "failure",
                          ![i].errors = @ + 1, ![i].signal = "resolved"]
    /\ UNCHANGED startupVars

----------------------------------------------------------------------------
(* Specifications *)

Startup == FetchNoRoot \/ FetchWalk \/ ScanFile \/ FetchReturn \/ ReturnDispatcher

Run(i, kinds) ==
    Dispatch(i, kinds) \/ Settle(i) \/ Resume(i) \/ Succeed(i) \/ Catch(i)

\* the program with concurrent invocations
Init == InitWith(FileSystems(RunDirs, RunNames, Modules))

Next == Startup \/ \E i \in 1..MaxInv : Run(i, RunKinds)

Spec == Init /\ [][Next]_vars

\* the program with concurrent invocations over the registries of callable
\* components of two categories
InitLive == InitWith(FileSystems(LiveDirs, RunNames, {"fn"}))

\* the event loop runs every continuation that is ready: an await whose
\* promise has settled resumes, and the awaits on the loader resume. Nothing
\* makes the promise of a callback settle.
SpecLive ==
    /\ InitLive
    /\ [][Next]_vars
    /\ \A i \in 1..MaxInv :
          WF_vars(Resume(i)) /\ WF_vars(Succeed(i)) /\ WF_vars(Catch(i))

\* the program with one invocation, of every component kind
InitOne == InitWith(FileSystems(RunDirs, OneNames, Modules))

NextOne == Startup \/ Run(1, ComponentKinds)

SpecOne == InitOne /\ [][NextOne]_vars

\* the startup operation alone, with any outcome of the probe of each
\* subfolder, whatever files the walk finds
InitProbe ==
    /\ InitFiles(FileSystems(ProbeDirs, OneNames, {"fn", "loadfail"}))
    /\ subfolders \in SUBSET {"buttons", "modals", "selects"}

SpecProbe == InitProbe /\ [][Startup]_vars

\* the startup operation alone, over longer file systems of callable
\* components
InitListing ==
    InitWith(FileSystemsUpTo(RunDirs, OneNames, {"fn"}, MaxListed))

SpecListing == InitListing /\ [][Startup]_vars

\* the startup operation alone, over a wider range of file systems
InitStartup == InitWith(FileSystems(ScanDirs, ScanNames, Modules))

SpecStartup == InitStartup /\ [][Startup]_vars

----------------------------------------------------------------------------
(* Properties *)

Invs == 1..MaxInv

Started(i) == inv[i].pc # "idle"

\* the callback of invocation i threw synchronously
Threw(i) == inv[i].result = "threw"

\* the callback of invocation i threw, or its promise rejected
Failed(i) == inv[i].result \in {"threw", "rejected"}

\* invocation i has a step to take, or has returned with its signal resolved
Proceeds(i) ==
    \/ inv[i].pc = "awaitCallback" /\ inv[i].result = "pending"
    \/ inv[i].pc = "awaitCallback" /\ ENABLED Resume(i)
    \/ inv[i].pc = "loaderResolve" /\ ENABLED Succeed(i)
    \/ inv[i].pc = "loaderError" /\ ENABLED Catch(i)
    \/ inv[i].pc = "done" /\ inv[i].signal = "resolved"

\* C1: invocation isolation. Whenever the callback of an invocation A threw
\* synchronously, A's call is not rejected and either has returned or can
\* take its next step; any other invocation B, before, during or after A,
\* can still be dispatched and, if its callback resolved, has called it once
\* and goes on to return as a success.
C1_InvocationIsolation ==
    \A a, b \in Invs :
        (a # b /\ Threw(a)) =>
            /\ inv[a].signal # "rejected"
            /\ inv[a].pc \in {"loaderError", "done"}
            /\ Proceeds(a)
            /\ (~Started(b) /\ (b > 1 => Started(b - 1)))
                   => ENABLED Dispatch(b, RunKinds)
            /\ inv[b].result = "fulfilled" =>
                   /\ inv[b].calls = 1
                   /\ Proceeds(b)
                   /\ inv[b].signal # "rejected"
                   /\ inv[b].pc = "done" => inv[b].outcome = "success"

\* A threw and has not returned yet, while B, dispatched after A to another
\* component, has already returned as a success
C1_Witness ==
    /\ Threw(1) /\ inv[1].pc = "loaderError"
    /\ inv[2].outcome = "success" /\ inv[2].signal = "resolved"
    /\ inv[2].component # 0 /\ inv[2].component # inv[1].component

\* C2: a failure of the callback is never propagated. An invocation whose
\* callback threw or rejected never has its signal rejected; it returns in
\* the state "failure" with its signal resolved and its error reported once;
\* and an error is reported only for an invocation whose callback failed.
C2_FailureNotPropagated ==
    \A i \in Invs :
        /\ Failed(i) =>
              /\ inv[i].signal = IF inv[i].pc = "done" THEN "resolved"
                                 ELSE "pending"
              /\ Proceeds(i)
              /\ inv[i].pc = "done" =>
                     inv[i].outcome = "failure" /\ inv[i].errors = 1
              /\ inv[i].pc # "done" => inv[i].errors = 0
        /\ ~Failed(i) => inv[i].errors = 0

\* one invocation returned after its promise rejected, the other after its
\* callback threw, each with one error reported
C2_Witness ==
    /\ inv[1].result = "rejected" /\ inv[1].pc = "done" /\ inv[1].errors = 1
    /\ inv[2].result = "threw" /\ inv[2].pc = "done" /\ inv[2].errors = 1

SelectKinds ==
    {ChannelSelect, RoleSelect, UserSelect, StringSelect, MentionableSelect}

\* the category the specification gives to a component kind
ClaimedCategory(kind) ==
    IF kind = Button THEN "buttons"
    ELSE IF kind \in SelectKinds THEN "selects"
    ELSE "modals"

\* C3: category fidelity. A callback is called only for an event whose
\* customId is the component's name and whose kind is classified as the
\* component's category, the component being that of a file placed under the
\* directory of that category.
C3_CategoryFidelity ==
    \A i \in Invs :
        inv[i].calls > 0 =>
            /\ inv[i].component \in DOMAIN components
            /\ LET c == components[inv[i].component]
               IN  /\ c.name = inv[i].customId
                   /\ c.category = ClaimedCategory(inv[i].kind)
                   /\ \E k \in DOMAIN files :
                         /\ files[k].dir # <<>>
                         /\ files[k].dir[1] = ClaimedCategory(inv[i].kind)
                         /\ files[k].name[1] = inv[i].customId
                         /\ c.default \in {0, k}

\* a select event whose customId names a component of the buttons only has
\* found nothing
C3_Witness ==
    /\ inv[1].kind = StringSelect /\ inv[1].outcome = "notfound"
    /\ \E k \in DOMAIN components :
          components[k].name = inv[1].customId
              /\ components[k].category = "buttons"
    /\ \A k \in DOMAIN components : components[k].category # "selects"

\* no component has the name and the claimed category of the event
NoMatch(kind, custom_id) ==
    \A k \in DOMAIN components :
        ~(components[k].name = custom_id
              /\ components[k].category = ClaimedCategory(kind))

\* C8: not-found is a no-op. The dispatch of an event that matches no
\* component returns at once with its signal resolved, calls no callback,
\* reports no error, and changes neither the registry, nor any other state
\* of the startup, nor any other invocation.
C8_NotFoundNoOp ==
    [][\A i \in Invs :
          (inv[i].pc = "idle" /\ inv'[i].pc # "idle"
              /\ NoMatch(inv'[i].kind, inv'[i].customId)) =>
                /\ inv'[i].pc = "done"
                /\ inv'[i].outcome = "notfound"
                /\ inv'[i].signal = "resolved"
                /\ inv'[i].calls = 0
                /\ inv'[i].errors = 0
                /\ inv'[i].component = 0
                /\ components' = components
                /\ UNCHANGED startupVars
                /\ \A j \in Invs \ {i} : inv'[j] = inv[j]]_vars

\* the second event found nothing, though a component has its customId in
\* another category, while the first invocation awaits its callback
C8_Witness ==
    /\ inv[2].outcome = "notfound" /\ inv[2].signal = "resolved"
    /\ inv[1].pc = "awaitCallback"
    /\ \E k \in DOMAIN components : components[k].name = inv[2].customId

\* C9: the classifier. Every dispatched event gets the category claimed for
\* its kind, which is one of buttons, modals, selects; and the categories
\* the classifier produces are the directory names the scan accepts.
C9_ClassifierMapping ==
    /\ \A i \in Invs :
          Started(i) =>
              /\ inv[i].category = ClaimedCategory(inv[i].kind)
              /\ inv[i].category \in {"buttons", "modals", "selects"}
    /\ {getCategory(k) : k \in ComponentKinds}
           = {validComponentCategories[n] : n \in DOMAIN validComponentCategories}

\* a mentionable-select event has run the component of the selects
C9_Witness ==
    /\ inv[1].kind = MentionableSelect
    /\ inv[1].category = "selects"
    /\ inv[1].outcome = "success"

\* the files the loop has been through
Scanned == {i \in DOMAIN files : i < idx}

\* the file sits in one of the three category directories of the root
Classifiable(f) ==
    f.dir # <<>> /\ f.dir[1] \in {"buttons", "modals", "selects"}

\* file f yields the name and the category of record r
Yields(f, r) ==
    Classifiable(f) /\ NameOf(f) = r.name /\ f.dir[1] = r.category

\* the scan stops with a failure only at a file whose import fails
OnlyLoadFails == pc = "failed" => files[idx].module = "loadfail"

\* C4: duplicate suppression. The registry never holds two records with the
\* same (name, category); every scanned file of a category has its record;
\* each record is the one of the first scanned file that yields its name and
\* category, with the callback of that file; a duplicate is no fatal error.
C4_DuplicateSuppression ==
    /\ \A k, l \in DOMAIN componentData :
          (componentData[k].name = componentData[l].name
              /\ componentData[k].category = componentData[l].category)
                  => k = l
    /\ \A i \in Scanned :
          Classifiable(files[i]) =>
              \E k \in DOMAIN componentData : Yields(files[i], componentData[k])
    /\ \A k \in DOMAIN componentData :
          \E i \in Scanned :
              /\ Yields(files[i], componentData[k])
              /\ \A j \in Scanned : Yields(files[j], componentData[k]) => i <= j
              /\ componentData[k].default
                     = IF files[i].module = "fn" THEN i ELSE 0
    /\ OnlyLoadFails
    /\ pc = "ready" => components = componentData

\* two files of one category with the same name were scanned, and the
\* dispatcher was returned with the record of the first
C4_Witness ==
    /\ pc = "ready"
    /\ Len(files) = 2
    /\ files[1].module = "fn" /\ files[2].module = "fn"
    /\ Classifiable(files[1]) /\ Classifiable(files[2])
    /\ files[1].dir[1] = files[2].dir[1]
    /\ NameOf(files[1]) = NameOf(files[2])
    /\ Len(components) = 1 /\ components[1].default = 1

\* the entry is a source file the walk discovers
IsSource(e) == e.name[Len(e.name)] = "ts"

\* C5: fatal load failure. When a source file under the root fails to load,
\* fetchComponents never returns, no dispatcher is returned and no registry
\* is installed; the scan does not go past the failing file, and after the
\* failure the startup takes no further step.
C5_FatalLoadFailure ==
    (rootState = "ok"
        /\ \E n \in DOMAIN fsEntries :
              IsSource(fsEntries[n]) /\ fsEntries[n].module = "loadfail") =>
            /\ pc \in {"fetch", "loop", "failed"}
            /\ components = <<>>
            /\ \A i \in Scanned : files[i].module # "loadfail"
            /\ pc = "loop" => idx <= Len(files)
            /\ pc = "failed" => ~ENABLED Startup

\* the startup failed at a file outside the category directories, after a
\* first component had been put in the array
C5_Witness ==
    /\ pc = "failed"
    /\ componentData # <<>>
    /\ ~Classifiable(files[idx])
    /\ components = <<>>

\* C7: unknown-category skip. Every record comes from a scanned file of a
\* category directory; a scanned file directly under the root or under
\* another directory has no record and stops nothing: the scan fails only at
\* a failing import, fetchComponents returns only with every file scanned,
\* and every scanned file of a category directory has its record.
C7_UnknownCategorySkip ==
    /\ \A k \in DOMAIN componentData :
          /\ componentData[k].category \in {"buttons", "modals", "selects"}
          /\ \E i \in Scanned : Yields(files[i], componentData[k])
    /\ \A i \in Scanned :
          ~Classifiable(files[i]) =>
              \A k \in DOMAIN componentData : componentData[k].default # i
    /\ Len(componentData)
           <= Cardinality({i \in Scanned : Classifiable(files[i])})
    /\ OnlyLoadFails
    /\ pc \in {"fetched", "ready"} => idx = Len(files) + 1
    /\ \A i \in Scanned :
          Classifiable(files[i]) =>
              \E k \in DOMAIN componentData : Yields(files[i], componentData[k])

\* a file directly under the root was skipped with a warning, the file after
\* it gave the only record, and the dispatcher was returned
C7_Witness ==
    /\ pc = "ready"
    /\ Len(files) = 2
    /\ files[1].dir = <<>> /\ files[1].module = "fn"
    /\ Classifiable(files[2]) /\ files[2].module = "fn"
    /\ Len(components) = 1 /\ components[1].default = 2
    /\ log = <<[warn |-> "noCategory", name |-> NameOf(files[1])]>>

\* C6: empty root. When the root directory does not exist, no module is
\* loaded, the registry is empty, the startup does not fail and goes on
\* until the dispatcher is returned, and every dispatched event is not found.
C6_EmptyRoot ==
    rootState = "missing" =>
        /\ imported = <<>>
        /\ componentData = <<>>
        /\ components = <<>>
        /\ pc \in {"fetch", "fetched", "ready"}
        /\ pc # "ready" => ENABLED Startup
        /\ \A i \in Invs :
              Started(i) =>
                  /\ inv[i].outcome = "notfound"
                  /\ inv[i].calls = 0
                  /\ inv[i].signal = "resolved"

\* the root is missing, the dispatcher was returned, an event was not found
C6_Witness ==
    /\ rootState = "missing"
    /\ pc = "ready"
    /\ inv[1].outcome = "notfound"

\* C10: startup precedes dispatch. An invocation exists only once the
\* dispatcher is returned; it is returned only with every file scanned and
\* loaded and the registry final; before that, and after a failed scan, no
\* event can be dispatched and no callback has been called.
C10_StartupPrecedesDispatch ==
    /\ \A i \in Invs : Started(i) => pc = "ready"
    /\ pc = "ready" =>
          /\ idx = Len(files) + 1
          /\ Len(imported) = Len(files)
          /\ \A i \in DOMAIN files : files[i].module # "loadfail"
          /\ components = componentData
    /\ pc # "ready" =>
          \A i \in Invs :
              inv[i].calls = 0 /\ ~ENABLED Dispatch(i, RunKinds)

\* two files were scanned and a callback was called
C10_Witness ==
    /\ pc = "ready"
    /\ Len(files) = 2
    /\ Len(components) = 2
    /\ inv[1].calls = 1

\* C11: registry immutability. Once the dispatcher is returned, no step, of
\* any invocation in any interleaving, changes the registry.
C11_RegistryImmutable ==
    [][pc = "ready" =>
          /\ components' = components
          /\ componentData' = componentData]_vars

\* with two components registered, one invocation has failed and the other
\* has succeeded
C11_Witness ==
    /\ pc = "ready"
    /\ Len(components) = 2
    /\ inv[1].outcome = "failure"
    /\ inv[2].outcome = "success"

\* C13: exactly one invocation, no retry. An invocation calls a callback at
\* most once; it has called one exactly when a record has the event's
\* customId and claimed category, and that one is the record it looked up; a
\* callback that threw or rejected has been called once.
C13_ExactlyOneCall ==
    \A i \in Invs :
        /\ inv[i].calls <= 1
        /\ Started(i) =>
              /\ inv[i].calls = 1 <=> ~NoMatch(inv[i].kind, inv[i].customId)
              /\ inv[i].calls = 1 =>
                    /\ inv[i].component \in DOMAIN components
                    /\ components[inv[i].component].name = inv[i].customId
        /\ Failed(i) => inv[i].calls = 1

\* C14: completion follows settlement. The signal of an invocation that
\* found a component is resolved only when runComponent has returned, which
\* is after the callback threw or its result settled; it is pending while
\* the result is pending and while line 91 has not resumed, also for a plain
\* value.
C14_CompletionAfterSettlement ==
    \A i \in Invs :
        (Started(i) /\ inv[i].component # 0) =>
            /\ inv[i].signal = "resolved" =>
                  /\ inv[i].pc = "done"
                  /\ inv[i].result \in {"fulfilled", "rejected", "threw"}
            /\ inv[i].result = "pending" => inv[i].signal = "pending"
            /\ inv[i].pc = "awaitCallback" => inv[i].signal = "pending"

\* a callback returned a promise that is still pending, and its invocation
\* has not completed, while a later invocation, whose callback returned a
\* plain value, has
C14_Witness ==
    /\ inv[1].behaviour = "promise" /\ inv[1].result = "pending"
    /\ inv[1].signal = "pending"
    /\ inv[2].behaviour = "value" /\ inv[2].signal = "resolved"

\* C16: the callback is required. Every record of the registry carries a
\* callable default export, and an invocation that found a record has called
\* a function.
C16_CallbackRequired ==
    /\ \A k \in DOMAIN componentData : componentData[k].default # 0
    /\ \A k \in DOMAIN components : components[k].default # 0
    /\ \A i \in Invs :
          (Started(i) /\ inv[i].component # 0) => inv[i].calls = 1

\* invocation i awaits a callback result that has not settled
Suspended(i) == inv[i].pc = "awaitCallback" /\ inv[i].result = "pending"

\* C12: suspension is local. While an invocation awaits a result that has
\* not settled, its signal stays pending and the next event can still be
\* dispatched; and every invocation whose callback threw or whose result
\* has settled, or that found no component, eventually returns with its
\* signal resolved, whatever the other invocations do, also when their
\* results never settle.
C12_SuspensionLocal ==
    /\ [](\A i \in Invs :
            Suspended(i) =>
               /\ inv[i].signal = "pending"
               /\ \A j \in Invs :
                     (~Started(j) /\ (j > 1 => Started(j - 1)))
                         => ENABLED Dispatch(j, RunKinds))
    /\ \A j \in Invs :
          (Started(j) /\ inv[j].result # "pending")
              ~> (inv[j].pc = "done" /\ inv[j].signal = "resolved")

\* the first invocation is suspended and the second, which arrived later,
\* has completed
C12_Witness ==
    /\ Suspended(1)
    /\ inv[2].pc = "done" /\ inv[2].outcome = "success"

\* the base name of the file with its extension stripped, as its parts
Stem(f) == SubSeq(f.name, 1, Len(f.name) - 1)

\* C15: name derivation. The name of every record is the base name of its
\* file without the extension, dots included, so that there are as many
\* records as scanned files of a category differ in (stripped base name,
\* category).
C15_NameDerivation ==
    /\ \A k \in DOMAIN componentData :
          \E i \in Scanned :
              /\ Classifiable(files[i])
              /\ files[i].dir[1] = componentData[k].category
              /\ Stem(files[i]) = <<componentData[k].name>>
    /\ Len(componentData)
           = Cardinality({<<Stem(files[i]), files[i].dir[1]>> :
                             i \in {j \in Scanned : Classifiable(files[j])}})

\* C19: load precedes classification and deduplication. The files are
\* imported in scan order, one per iteration and before anything else of
\* the iteration: every scanned file was imported, whether it got a record or
\* not; the scan fails exactly at an import that fails, whatever the place
\* or the name of the file; and no file after the failing one is imported.
C19_LoadPrecedesChecks ==
    /\ \A n \in DOMAIN imported : imported[n] = n
    /\ \A i \in Scanned : i \in DOMAIN imported
    /\ Len(imported) = IF pc = "failed" THEN idx
                       ELSE IF pc = "fetch" THEN 0
                       ELSE idx - 1
    /\ pc = "failed" => files[idx].module = "loadfail"
    /\ \A i \in DOMAIN imported :
          files[i].module = "loadfail" => (pc = "failed" /\ i = idx)
    /\ rootState # "ok" => imported = <<>>

\* the scan failed at its first file, which sits outside the categories, and
\* the file after it was not imported
C19_Witness ==
    /\ pc = "failed"
    /\ idx = 1
    /\ ~Classifiable(files[1])
    /\ Len(files) = 2
    /\ imported = <<1>>

\* C20: root probe failures. When the root cannot be read, for whatever
\* reason, the scan returns an empty array and the startup goes on to return
\* the dispatcher; the missing-directory warning is in the log exactly when
\* the root does not exist.
C20_RootProbeFailure ==
    /\ rootState # "ok" =>
          /\ componentData = <<>> /\ components = <<>> /\ imported = <<>>
          /\ pc \in {"fetch", "fetched", "ready"}
          /\ pc # "ready" => ENABLED Startup
    /\ pc \in {"fetched", "ready"} =>
          ((\E n \in DOMAIN log : log[n] = [warn |-> "rootNotFound"])
              <=> rootState = "missing")
    /\ Len(SelectSeq(log, LAMBDA l : l = [warn |-> "rootNotFound"])) <= 1

\* the root exists but cannot be read: the dispatcher was returned and
\* nothing was logged
C20_Witness ==
    /\ rootState = "denied"
    /\ pc = "ready"
    /\ log = <<>>
    /\ components = <<>>

\* files[n] sits in a category and no file scanned before it yields its
\* name and category
FirstOfItsKind(n) ==
    /\ Classifiable(files[n])
    /\ \A j \in 1..(n - 1) :
          ~(Classifiable(files[j])
               /\ NameOf(files[j]) = NameOf(files[n])
               /\ files[j].dir[1] = files[n].dir[1])

\* the records of the first n scanned files, in scan order
RECURSIVE Retained(_)
Retained(n) ==
    IF n = 0 THEN <<>>
    ELSE IF FirstOfItsKind(n)
    THEN Append(Retained(n - 1),
                [name |-> NameOf(files[n]),
                 category |-> files[n].dir[1],
                 default |-> IF files[n].module = "fn" THEN n ELSE 0])
    ELSE Retained(n - 1)

\* C17: registry contents and order. The array is, at every step, the
\* scan-ordered sequence of the files scanned so far that sit in a category
\* and are the first with their (name, category); the registry is that of
\* all the files; the outcome of the probe of the subfolders plays no part.
C17_RegistryContents ==
    /\ pc # "fetch" => componentData = Retained(idx - 1)
    /\ pc \in {"fetched", "ready"} => componentData = Retained(Len(files))
    /\ pc = "ready" => components = Retained(Len(files))

\* the dispatcher was returned with a record of a category whose subfolder
\* the probe could not read, while a probed subfolder gave no record
C17_Witness ==
    /\ pc = "ready"
    /\ \E k \in DOMAIN components :
          ~Includes(presentCategories, <<components[k].category>>)
    /\ \E n \in DOMAIN presentCategories :
          \A k \in DOMAIN components :
              components[k].category # presentCategories[n]
    /\ Len(files) = 2 /\ Len(components) = 1

\* the connector claimed for the n-th of total entries
Connector(n, total) ==
    IF total = 1 THEN "only"
    ELSE IF n = 1 THEN "first"
    ELSE IF n = total THEN "last"
    ELSE "middle"

\* C18: listing shape. Until the dispatcher is returned the listing is its
\* header; from then on it has, after the header, one row per record of the
\* registry, in registry order, with the record's name and category and the
\* claimed connector; and the registry is the array the scan returned.
C18_ListingShape ==
    /\ generatedStr[1].conn = "header"
    /\ pc # "ready" => Len(generatedStr) = 1
    /\ pc = "ready" =>
          /\ Len(generatedStr) = Len(components) + 1
          /\ \A n \in DOMAIN components :
                /\ generatedStr[n + 1].name = components[n].name
                /\ generatedStr[n + 1].category = components[n].category
                /\ generatedStr[n + 1].conn = Connector(n, Len(components))
          /\ components = componentData

\* three records are listed, the second with the middle connector
C18_Witness ==
    /\ pc = "ready"
    /\ Len(components) = 3
    /\ generatedStr[2].conn = "first"
    /\ generatedStr[3].conn = "middle"
    /\ generatedStr[4].conn = "last"

====
